---------------------------- MODULE Spec2Model ----------------------------
(***************************************************************************)
(* live-translate-rs: the real-time audio bridge (JACK process callback),  *)
(* the mpsc channel to the processing thread, the voice-triggered          *)
(* recording loop of process_audio, the translate_and_play pipeline and    *)
(* the shared play buffer, with the shutdown sequence of main.             *)
(*                                                                         *)
(* Samples are modelled as integers.  The block captured in hardware cycle *)
(* n carries the labels (n-1)*BlockLen+1 .. n*BlockLen, the audio          *)
(* synthesized for the u-th utterance carries 100*u+1 .. 100*u+len, and    *)
(* 0 is the silence sample 0.0: every sample is told apart from every      *)
(* other one, so order, loss and duplication are all observable.           *)
(***************************************************************************)
EXTENDS Integers, Sequences, FiniteSets, TLC

\* ------------------------------------------------------------- bounds
\* Number of hardware cycles (callback invocations) explored.
MaxCycles == 13
\* Samples per hardware cycle: length of in_buf and of out_buf.
BlockLen == 2
\* Largest length of the resampled synthesized audio of one utterance.
MaxTts == 3
\* Number of configured output destinations (config.audio.output_ports).
MaxPorts == 2
\* Hardware block lengths range over VadWindow - MaxDelta .. VadWindow + MaxDelta.
MaxDelta == 1
\* Input samples range up to MaxOver half-units beyond full scale.
MaxOver == 1

\* ------------------------------------------------- program constants
\* main.rs:284  `if silence >= 10`
SilenceThreshold == 10
\* main.rs:261  `samples_int.truncate(960)`
VadWindow == 960
\* main.rs:257  `i16::MAX`
I16Max == 32767
\* main.rs:257  `x.clamp(-1.0, 1.0)`: the f32 value 1.0, in the unit samples
\* are counted in (thousandths)
Unit == 1000

VARIABLES
    backend,      \* which process handler is registered: "closure" | "JackClient"
    vad_frame_ok, \* whether the hardware block length is a frame length the VAD accepts
    audio,        \* the mpsc channel audio_tx -> audio_rx: queue of ProcessUnit
    recording,    \* process_audio: recording
    silence,      \* process_audio: silence
    samples,      \* process_audio: samples (the accumulator)
    is_voice,     \* process_audio: is_voice of the block processed last
    wpc,          \* processing thread: "recv" | "transcribe" | "synth" | "append" | "locked" | "done" | "panicked"
    utterance,    \* translate_and_play: samples (the argument samples_cloned)
    resampled,    \* translate_and_play / play_tts: resampled
    play_buffer,  \* the shared VecDeque behind the Mutex
    out_buf,      \* the output hardware buffer of the last cycle
    cb_ret,       \* what the last callback invocation did: "none" | "Continue" | "panic"
    rt,           \* the real-time thread: "active" | "panicked"
    cycle,        \* number of callback invocations so far
    running,      \* the AtomicBool running
    mpc,          \* main thread: "setup" | "setup_failed" | "loop" | "join" | "deactivate" | "reconnect" | "kill" | "exited" | "panicked"
    \* history of what the code above did (never read by the actions' guards)
    nrecv,        \* number of Continue units received by process_audio
    falseRun,     \* number of consecutive is_voice = false results since the last true one
    everVoice,    \* whether is_voice has been true for any block so far
    onsetIdx,     \* index of the block at which recording was last started
    onsetVoice,   \* is_voice of that block
    nEmitted,     \* number of calls of translate_and_play
    quitSeen,     \* whether process_audio has received ProcessUnit::Quit
    dropped,      \* number of units destroyed unread when audio_rx was dropped
    rtIn,         \* the sequence last appended to an empty play buffer
    rtOut,        \* the samples popped since then (at most Len(rtIn) of them)
    appended,     \* every sample appended to the play buffer so far, in order
    sentInCall,   \* cycle of the last block sent while translate_and_play was running
    \* the Mutex around play_buffer
    lock,         \* who holds the guard: "free" | "worker"
    \* the JACK port graph and the port bookkeeping of setup and teardown
    port_exists,  \* the configured destinations client.port_by_name finds
    mic_before,   \* the destinations wired to the input source before setup
    mic_routes,   \* the destinations wired to the input source now
    out_conn,     \* the destinations the client's output port is connected to
    temp_disconnected, \* the Vec temp_disconnected (PortTopology)
    setup_i,      \* iterations of the setup loop over output_ports done
    attempted,    \* the ports teardown has called connect_ports_by_name for, in order
    \* the TTS server
    piper,        \* the child process setup_piper started: "running" | "killed"
    \* more history
    popped,       \* every sample the callback has popped from the play buffer, in order
    lateEmit,     \* whether an utterance was emitted while Quit was waiting in the channel
    \* the derivation of is_voice
    push_to_talk, \* config.general.push_to_talk
    key_down,     \* whether config.general.ptt_key is held down
    samples_int   \* process_audio: samples_int of the block processed last

vars == <<backend, vad_frame_ok, audio, recording, silence, samples, is_voice,
          wpc, utterance, resampled, play_buffer, out_buf, cb_ret, rt, cycle,
          running, mpc, nrecv, falseRun, everVoice, onsetIdx, onsetVoice,
          nEmitted, quitSeen, dropped, rtIn, rtOut, appended, sentInCall,
          lock, port_exists, mic_before, mic_routes, out_conn,
          temp_disconnected, setup_i, attempted, piper, popped, lateEmit,
          push_to_talk, key_down, samples_int>>

workerVars == <<recording, silence, samples, is_voice, utterance, resampled,
                samples_int>>
historyVars == <<nrecv, falseRun, everVoice, onsetIdx, onsetVoice, nEmitted,
                 lateEmit>>
callbackVars == <<out_buf, cb_ret, rt, cycle>>
auxVars == <<appended, sentInCall, lock, popped>>
envVars == <<backend, vad_frame_ok, piper, push_to_talk, key_down>>
portVars == <<port_exists, mic_before, mic_routes, out_conn, temp_disconnected,
              setup_i, attempted>>
audioVars == <<audio, workerVars, wpc, play_buffer, callbackVars, historyVars,
               quitSeen, dropped, rtIn, rtOut, auxVars>>

\* ------------------------------------------------------------ helpers
Min(a, b) == IF a < b THEN a ELSE b

Take(s, n) == SubSeq(s, 1, Min(n, Len(s)))

Drop(s, n) == SubSeq(s, Min(n, Len(s)) + 1, Len(s))

\* in_buf of hardware cycle n (in_port.as_slice(ps)).
InBlock(n) == [i \in 1..BlockLen |-> (n - 1) * BlockLen + i]

\* The concatenation of the blocks of cycles a..b, in order.
RECURSIVE BlocksFrom(_, _)
BlocksFrom(a, b) == IF a > b THEN <<>> ELSE InBlock(a) \o BlocksFrom(a + 1, b)

\* The resampled synthesized audio of the u-th utterance, len samples long.
TtsOut(u, len) == [i \in 1..len |-> 100 * u + i]

ContinueUnit(buf) == [type |-> "Continue", buf |-> buf]

QuitUnit == [type |-> "Quit", buf |-> <<>>]

\* A channel that hands the newest unit to the receiver first.
Send_Front(queue, unit) == <<unit>> \o queue

\* audio_tx.send(unit) on the mpsc channel, while the receiver exists: the
\* unit is queued behind everything sent before it.
Send(queue, unit) == Append(queue, unit)

\* The receiving end audio_rx exists while process_audio runs.
RxAlive == wpc \notin {"done", "panicked"}

\* The process exists until main returns or the main thread panics.
ProcessAlive == mpc \notin {"setup_failed", "exited", "panicked"}

\* config.audio.output_ports: the configured destinations, by position.
Configured == 1..MaxPorts

\* A destination of the port graph that is not in output_ports.
OtherPort == MaxPorts + 1

\* The elements of a sequence.
Range(s) == {s[i] : i \in 1..Len(s)}


\* ProcessUnit::Quit has been sent and not yet received.
QuitWaiting == \E i \in 1..Len(audio) : audio[i].type = "Quit"

\* The processing thread is inside translate_and_play.
InPipeline == wpc \in {"transcribe", "synth", "append", "locked"}

\* The client is active from activate_async until deactivate.
ClientActive == mpc \in {"loop", "join", "deactivate"}


\* ------------------------------------------------ the VoiceDecision
\* f32::round of n / d: to the nearest integer, halves away from zero.
RoundDiv(n, d) ==
    IF n >= 0 THEN (2 * n + d) \div (2 * d)
              ELSE -((2 * (-n) + d) \div (2 * d))

\* `x.clamp(-1.0, 1.0)`
Clamp(x) == IF x < -Unit THEN -Unit ELSE IF x > Unit THEN Unit ELSE x

\* `(x.clamp(-1.0, 1.0) * i16::MAX as f32).round() as i16`
ToI16(x) == RoundDiv(Clamp(x) * I16Max, Unit)

\* `in_buf.iter().map(..).collect()` then `samples_int.truncate(960)`
VadFrame(in_buf) == Take([i \in 1..Len(in_buf) |-> ToI16(in_buf[i])], VadWindow)

\* `let is_voice = vad.is_voice_segment(&samples_int).unwrap();` with vad
\* the collaborator's answer: the configuration and the key are not read.
VoiceDecision(ptt, key, vad) == vad

\* ------------------------------------------- the recording state machine
\* RecordingBranch with the append moved under `if is_voice`: silent blocks
\* are counted but not recorded.
RecordingBranch_DropSilent(s, in_buf, v) ==
    LET acc == IF v THEN s.samples \o in_buf ELSE s.samples
        sil == IF v THEN 0 ELSE s.silence + 1
        fin == sil >= SilenceThreshold
    IN  [recording |-> ~fin, silence |-> sil, samples |-> acc, emit |-> fin]

\* process_audio, `if recording { ... }`: the block is appended, the silence
\* counter is reset or incremented, and at the threshold recording stops and
\* the accumulator is handed to translate_and_play (emit).  The accumulator
\* is not cleared here.
RecordingBranch(s, in_buf, v) ==
    LET acc == s.samples \o in_buf
        sil == IF v THEN 0 ELSE s.silence + 1
        fin == sil >= SilenceThreshold
    IN  [recording |-> ~fin, silence |-> sil, samples |-> acc, emit |-> fin]

\* IdleBranch that also appends the block while idle and silent.
IdleBranch_AppendsWhenSilent(s, in_buf, v) ==
    IF v
    THEN [recording |-> TRUE, silence |-> s.silence, samples |-> in_buf,
          emit |-> FALSE]
    ELSE [recording |-> s.recording, silence |-> s.silence,
          samples |-> s.samples \o in_buf, emit |-> FALSE]

\* IdleBranch with the `if is_voice` test lost: any block starts a recording.
IdleBranch_StartsOnSilence(s, in_buf, v) ==
    [recording |-> TRUE, silence |-> s.silence, samples |-> in_buf,
     emit |-> FALSE]

\* process_audio, `else { if is_voice { ... } }`: recording starts, the
\* accumulator is cleared and the block appended.  silence is not assigned.
IdleBranch(s, in_buf, v) ==
    IF v
    THEN [recording |-> TRUE, silence |-> s.silence, samples |-> in_buf,
          emit |-> FALSE]
    ELSE [recording |-> s.recording, silence |-> s.silence,
          samples |-> s.samples, emit |-> FALSE]

\* One ProcessUnit::Continue(in_buf) with VoiceDecision v.
StepSession(s, in_buf, v) ==
    IF s.recording THEN RecordingBranch(s, in_buf, v)
                   ELSE IdleBranch(s, in_buf, v)

\* ------------------------------------------------------ the play buffer
\* PopFront with pop_back in place of pop_front.
PopFront_Back(buf) ==
    IF buf = <<>> THEN [val |-> 0, rest |-> <<>>]
                  ELSE [val |-> buf[Len(buf)],
                        rest |-> SubSeq(buf, 1, Len(buf) - 1)]

\* Pops that lose the sample behind the one they return.
PopFront_SkipNext(buf) ==
    IF buf = <<>> THEN [val |-> 0, rest |-> <<>>]
                  ELSE [val |-> Head(buf), rest |-> IF Len(buf) > 1 THEN Tail(Tail(buf)) ELSE <<>>]

\* play_buffer.pop_front().unwrap_or(0.0)
PopFront(buf) ==
    IF buf = <<>> THEN [val |-> 0, rest |-> <<>>]
                  ELSE [val |-> Head(buf), rest |-> Tail(buf)]

\* `for frame in out_buf.iter_mut() { *frame = pop_front().unwrap_or(0.0) }`
\* over n frames: the frames written, and what is left of the buffer.
RECURSIVE FillFrames(_, _)
FillFrames(buf, n) ==
    IF n = 0 THEN [out |-> <<>>, rest |-> buf]
    ELSE LET p == PopFront(buf)
             r == FillFrames(p.rest, n - 1)
         IN  [out |-> <<p.val>> \o r.out, rest |-> r.rest]

\* play_buffer.append at the wrong end.
AppendBack_Front(buf, new) == new \o buf

\* play_buffer.append(&mut resampled.into())
AppendBack(buf, new) == buf \o new

\* An output hardware buffer no frame of which was written in this cycle.
Unwritten == [i \in 1..BlockLen |-> -1]

\* ------------------------------------------------------------------ Init
\* The threads and buffers as main creates them, before the client is
\* activated.
InitThreads ==
    /\ backend \in {"closure", "JackClient"}
    /\ vad_frame_ok \in BOOLEAN
    /\ recording = FALSE
    /\ silence = 0
    /\ samples = <<>>
    /\ is_voice = FALSE
    /\ samples_int = <<>>
    /\ wpc = "recv"
    /\ utterance = <<>>
    /\ resampled = <<>>
    /\ play_buffer = <<>>
    /\ rt = "active"
    /\ running = TRUE
    /\ nrecv = 0
    /\ falseRun = 0
    /\ everVoice = FALSE
    /\ onsetIdx = 0
    /\ onsetVoice = FALSE
    /\ nEmitted = 0
    /\ quitSeen = FALSE
    /\ dropped = 0
    /\ rtIn = <<>>
    /\ rtOut = <<>>
    /\ appended = <<>>
    /\ sentInCall = 0
    /\ lock = "free"
    /\ piper = "running"
    /\ popped = <<>>
    /\ lateEmit = FALSE

\* No hardware cycle has run yet; the configuration is voice-activity mode.
InitAudio ==
    /\ InitThreads
    /\ audio = <<>>
    /\ out_buf = Unwritten
    /\ cb_ret = "none"
    /\ cycle = 0
    /\ push_to_talk = FALSE
    /\ key_down = FALSE

\* The port graph and bookkeeping a successful setup leaves when every
\* configured destination exists and the first of them was monitoring the
\* input source, next to a destination that is not configured.
PortsAfterSetup ==
    /\ port_exists = Configured
    /\ mic_before = {1, OtherPort}
    /\ temp_disconnected = <<1>>
    /\ mic_routes = {OtherPort}
    /\ out_conn = Configured
    /\ setup_i = MaxPorts
    /\ attempted = <<>>

\* The program once setup has succeeded and the client is activated.
Init ==
    /\ InitAudio
    /\ mpc = "loop"
    /\ PortsAfterSetup

\* ---------------------------------------------------- real-time callback
CallbackEnabled ==
    /\ ProcessAlive
    /\ ClientActive
    /\ rt = "active"
    /\ cb_ret # "running"
    /\ cycle < MaxCycles

\* One cycle in which the send succeeds: the block is queued, the play
\* buffer is locked, every frame of out_buf is written, Control::Continue.
\* play_buffer.lock() waits while the processing thread holds the guard, so
\* the cycle completes only once the guard is free.
ProcessCallback ==
    /\ CallbackEnabled
    /\ RxAlive
    /\ lock = "free"
    /\ LET f == FillFrames(play_buffer, BlockLen)
           npop == Len(play_buffer) - Len(f.rest)
       IN  /\ audio' = Send(audio, ContinueUnit(InBlock(cycle + 1)))
           /\ out_buf' = f.out
           /\ play_buffer' = f.rest
           /\ rtOut' = Take(rtOut \o Take(f.out, npop), Len(rtIn))
           /\ popped' = popped \o Take(f.out, npop)
    /\ sentInCall' = IF InPipeline THEN cycle + 1 ELSE sentInCall
    /\ cb_ret' = "Continue"
    /\ cycle' = cycle + 1
    /\ UNCHANGED <<portVars, envVars, workerVars, wpc, rt, running, mpc,
                   historyVars, quitSeen, dropped, rtIn, appended, lock>>

\* The first half of a cycle, for the interleavings in which the processing
\* thread runs between the send and the lock: `audio_tx.send(..)` on the
\* unbounded channel returns at once, whatever the receiver is doing. The
\* cycle is then in flight (cb_ret = "running") with out_buf not yet written.
CallbackSend ==
    /\ CallbackEnabled
    /\ RxAlive
    /\ audio' = Send(audio, ContinueUnit(InBlock(cycle + 1)))
    /\ sentInCall' = IF InPipeline THEN cycle + 1 ELSE sentInCall
    /\ out_buf' = Unwritten
    /\ cb_ret' = "running"
    /\ cycle' = cycle + 1
    /\ UNCHANGED <<portVars, envVars, workerVars, wpc, play_buffer, rt, running,
                   mpc, historyVars, quitSeen, dropped, rtIn, rtOut, appended,
                   lock, popped>>

\* The second half: `play_buffer.lock()` is granted once the guard is free,
\* one frame is popped or zeroed for every frame of out_buf, and the handler
\* returns Control::Continue.
CallbackFill ==
    /\ ProcessAlive
    /\ cb_ret = "running"
    /\ lock = "free"
    /\ LET f == FillFrames(play_buffer, BlockLen)
           npop == Len(play_buffer) - Len(f.rest)
       IN  /\ out_buf' = f.out
           /\ play_buffer' = f.rest
           /\ rtOut' = Take(rtOut \o Take(f.out, npop), Len(rtIn))
           /\ popped' = popped \o Take(f.out, npop)
    /\ cb_ret' = "Continue"
    /\ UNCHANGED <<portVars, envVars, audio, workerVars, wpc, rt, cycle, running,
                   mpc, historyVars, quitSeen, dropped, rtIn, appended,
                   sentInCall, lock>>

\* main.rs and src/audio_jack.rs: `audio_tx.send(..).unwrap()` with the
\* receiver gone panics inside the callback.
CallbackSendPanic ==
    /\ CallbackEnabled
    /\ ~RxAlive
    /\ backend = "closure"
    /\ out_buf' = Unwritten
    /\ cb_ret' = "panic"
    /\ rt' = "panicked"
    /\ cycle' = cycle + 1
    /\ UNCHANGED <<portVars, auxVars, envVars, audio, workerVars, wpc, play_buffer,
                   running, mpc, historyVars, quitSeen, dropped, rtIn, rtOut>>

\* sound/audio_jack.rs: the send error is logged and the handler returns
\* Control::Continue at once, before out_buf is touched.
CallbackSendError ==
    /\ CallbackEnabled
    /\ ~RxAlive
    /\ backend = "JackClient"
    /\ out_buf' = Unwritten
    /\ cb_ret' = "Continue"
    /\ cycle' = cycle + 1
    /\ UNCHANGED <<portVars, auxVars, envVars, audio, workerVars, wpc, play_buffer,
                   rt, running, mpc, historyVars, quitSeen, dropped, rtIn,
                   rtOut>>

\* ------------------------------------------------- the processing thread
\* process_audio drops audio_rx when it returns or unwinds: the units still
\* queued are destroyed unread.
DropReceiver(queue) ==
    /\ audio' = <<>>
    /\ dropped' = dropped + Len(queue)

\* `for unit in audio { match unit { ProcessUnit::Continue(in_buf) => ..` with
\* a VoiceDecision v from the VAD: one pass through the recording state
\* machine; at the silence threshold translate_and_play is entered.
ProcessContinue ==
    /\ ProcessAlive
    /\ wpc = "recv"
    /\ audio # <<>>
    /\ Head(audio).type = "Continue"
    /\ vad_frame_ok
    /\ \E vad \in BOOLEAN :
         LET in_buf == Head(audio).buf
             v == VoiceDecision(push_to_talk, key_down, vad)
             s == [recording |-> recording, silence |-> silence,
                   samples |-> samples]
             n == StepSession(s, in_buf, v)
         IN  /\ recording' = n.recording
             /\ silence' = n.silence
             /\ samples' = n.samples
             /\ samples_int' = VadFrame(in_buf)
             /\ is_voice' = v
             /\ wpc' = IF n.emit THEN "transcribe" ELSE "recv"
             /\ utterance' = IF n.emit THEN n.samples ELSE utterance
             /\ nEmitted' = IF n.emit THEN nEmitted + 1 ELSE nEmitted
             /\ falseRun' = IF v THEN 0 ELSE falseRun + 1
             /\ everVoice' = (everVoice \/ v)
             /\ onsetIdx' = IF ~recording /\ n.recording THEN nrecv + 1
                                                         ELSE onsetIdx
             /\ onsetVoice' = IF ~recording /\ n.recording THEN v
                                                           ELSE onsetVoice
             /\ lateEmit' = (lateEmit \/ (n.emit /\ QuitWaiting))
    /\ audio' = Tail(audio)
    /\ nrecv' = nrecv + 1
    /\ UNCHANGED <<portVars, auxVars, envVars, resampled, play_buffer, callbackVars,
                   running, mpc, quitSeen, dropped, rtIn, rtOut>>

\* `vad.is_voice_segment(&samples_int).unwrap()`: the VAD rejects a frame of
\* a length it does not support (the block is truncated, never padded), and
\* the unwrap panics the processing thread.
ProcessContinueVadPanic ==
    /\ ProcessAlive
    /\ wpc = "recv"
    /\ audio # <<>>
    /\ Head(audio).type = "Continue"
    /\ ~vad_frame_ok
    /\ samples_int' = VadFrame(Head(audio).buf)
    /\ wpc' = "panicked"
    /\ DropReceiver(Tail(audio))
    /\ UNCHANGED <<portVars, auxVars, envVars, recording, silence, samples, is_voice,
                   utterance, resampled, play_buffer, callbackVars,
                   running, mpc, historyVars, quitSeen, rtIn, rtOut>>

\* ProcessQuit that flushes a recording in progress through the pipeline
\* before leaving.
ProcessQuit_Flush ==
    /\ ProcessAlive
    /\ wpc = "recv"
    /\ audio # <<>>
    /\ Head(audio).type = "Quit"
    /\ wpc' = IF recording THEN "transcribe" ELSE "done"
    /\ utterance' = IF recording THEN samples ELSE utterance
    /\ nEmitted' = IF recording THEN nEmitted + 1 ELSE nEmitted
    /\ quitSeen' = TRUE
    /\ DropReceiver(Tail(audio))
    /\ UNCHANGED <<portVars, auxVars, envVars, recording, silence, samples, is_voice,
                   resampled, samples_int, play_buffer, callbackVars, running,
                   mpc, nrecv, falseRun, everVoice, onsetIdx, onsetVoice,
                   lateEmit, rtIn, rtOut>>

\* A worker that leaves as soon as Quit is anywhere in the channel, ahead of
\* the blocks queued before it.
ProcessQuit_Preempt ==
    /\ ProcessAlive
    /\ wpc = "recv"
    /\ QuitWaiting
    /\ wpc' = "done"
    /\ quitSeen' = TRUE
    /\ DropReceiver(Tail(audio))
    /\ UNCHANGED <<portVars, auxVars, envVars, workerVars, play_buffer,
                   callbackVars, running, mpc, historyVars, rtIn, rtOut>>

\* ProcessQuit with `continue` in place of `break`: the unit is consumed and
\* the loop goes on.
ProcessQuit_NoBreak ==
    /\ ProcessAlive
    /\ wpc = "recv"
    /\ audio # <<>>
    /\ Head(audio).type = "Quit"
    /\ audio' = Tail(audio)
    /\ quitSeen' = TRUE
    /\ UNCHANGED <<portVars, auxVars, envVars, workerVars, wpc, play_buffer,
                   callbackVars, running, mpc, historyVars, dropped, rtIn,
                   rtOut>>

\* `ProcessUnit::Quit => break`
ProcessQuit ==
    /\ ProcessAlive
    /\ wpc = "recv"
    /\ audio # <<>>
    /\ Head(audio).type = "Quit"
    /\ wpc' = "done"
    /\ quitSeen' = TRUE
    /\ DropReceiver(Tail(audio))
    /\ UNCHANGED <<portVars, auxVars, envVars, workerVars, play_buffer, callbackVars,
                   running, mpc, historyVars, rtIn, rtOut>>

\* translate_and_play returns to the receive loop.
PipelineReturn ==
    /\ wpc' = "recv"
    /\ utterance' = <<>>
    /\ resampled' = <<>>

\* translate_and_play unwinds: the processing thread is gone.
PipelinePanic ==
    /\ wpc' = "panicked"
    /\ utterance' = <<>>
    /\ resampled' = <<>>
    /\ DropReceiver(audio)

\* TranscribeText taking the play buffer guard before the TTS request, so
\* that it is held across the request, the decoding and resample.
TranscribeText_LocksEarly ==
    /\ ProcessAlive
    /\ wpc = "transcribe"
    /\ lock = "free"
    /\ lock' = "worker"
    /\ wpc' = "synth"
    /\ UNCHANGED <<portVars, appended, sentInCall, popped, envVars, audio,
                   workerVars, play_buffer, callbackVars, running, mpc,
                   historyVars, quitSeen, dropped, rtIn, rtOut>>

\* transcribe returned a text that is not blank.
TranscribeText ==
    /\ ProcessAlive
    /\ wpc = "transcribe"
    /\ wpc' = "synth"
    /\ UNCHANGED <<portVars, auxVars, envVars, audio, workerVars, play_buffer,
                   callbackVars, running, mpc, historyVars, quitSeen, dropped,
                   rtIn, rtOut>>

\* `if result.trim().is_empty() { return; }`
TranscribeEmpty ==
    /\ ProcessAlive
    /\ wpc = "transcribe"
    /\ PipelineReturn
    /\ UNCHANGED <<portVars, auxVars, envVars, audio, recording, silence, samples,
                   is_voice, samples_int, play_buffer, callbackVars, running, mpc,
                   historyVars, quitSeen, dropped, rtIn, rtOut>>

\* transcribe: one of its unwrap()s (resample, create_state, full, ...) fails.
TranscribePanic ==
    /\ ProcessAlive
    /\ wpc = "transcribe"
    /\ PipelinePanic
    /\ UNCHANGED <<portVars, auxVars, envVars, recording, silence, samples, is_voice, samples_int,
                   play_buffer, callbackVars, running, mpc, historyVars,
                   quitSeen, rtIn, rtOut>>

\* The TTS request, the WAV decoding and resample all succeeded: resampled
\* holds the audio to play (never empty: resample adds 512 frames).
Synthesize ==
    /\ ProcessAlive
    /\ wpc = "synth"
    /\ \E len \in 1..MaxTts : resampled' = TtsOut(nEmitted, len)
    /\ wpc' = "append"
    /\ UNCHANGED <<portVars, auxVars, envVars, audio, recording, silence, samples,
                   is_voice, samples_int, utterance, play_buffer, callbackVars, running, mpc,
                   historyVars, quitSeen, dropped, rtIn, rtOut>>

\* The TTS request, the WAV decoding or resample failed: unwrap() panics.
SynthesizePanic ==
    /\ ProcessAlive
    /\ wpc = "synth"
    /\ PipelinePanic
    /\ UNCHANGED <<portVars, auxVars, envVars, recording, silence, samples, is_voice, samples_int,
                   play_buffer, callbackVars, running, mpc, historyVars,
                   quitSeen, rtIn, rtOut>>

\* `let mut play_buffer = play_buffer.lock().unwrap();` the guard is taken
\* after every fallible call of translate_and_play (and of play_tts), and the
\* callback takes it after its send, so no thread panics while holding it:
\* the lock is never poisoned and the unwrap never fails.
LockPlayBuffer ==
    /\ ProcessAlive
    /\ wpc = "append"
    /\ lock = "free"
    /\ lock' = "worker"
    /\ wpc' = "locked"
    /\ UNCHANGED <<portVars, appended, sentInCall, popped, envVars, audio,
                   workerVars, play_buffer, callbackVars, running, mpc,
                   historyVars, quitSeen, dropped, rtIn, rtOut>>

\* `play_buffer.append(..)` under the guard; the guard is dropped when
\* translate_and_play returns.
AppendPlayBuffer ==
    /\ ProcessAlive
    /\ wpc = "locked"
    /\ play_buffer' = AppendBack(play_buffer, resampled)
    /\ appended' = appended \o resampled
    /\ rtIn' = IF play_buffer = <<>> THEN resampled ELSE rtIn
    /\ rtOut' = IF play_buffer = <<>> THEN <<>> ELSE rtOut
    /\ lock' = "free"
    /\ PipelineReturn
    /\ UNCHANGED <<portVars, sentInCall, popped, envVars, audio, recording,
                   silence, samples, is_voice, samples_int, callbackVars,
                   running, mpc, historyVars, quitSeen, dropped>>

\* ------------------------------------------------------- the main thread
\* The ctrlc handler: r.store(false).
CtrlC ==
    /\ mpc = "loop"
    /\ running
    /\ running' = FALSE
    /\ UNCHANGED <<portVars, auxVars, envVars, audio, workerVars, wpc, play_buffer,
                   callbackVars, mpc, historyVars, quitSeen, dropped, rtIn,
                   rtOut>>

\* `audio_tx.send(ProcessUnit::Quit).unwrap()` with the receiver alive.
MainSendQuit ==
    /\ mpc = "loop"
    /\ ~running
    /\ RxAlive
    /\ audio' = Send(audio, QuitUnit)
    /\ mpc' = "join"
    /\ UNCHANGED <<portVars, auxVars, envVars, workerVars, wpc, play_buffer,
                   callbackVars, running, historyVars, quitSeen, dropped, rtIn,
                   rtOut>>

\* The same send with the receiver gone: the unwrap panics main.
MainSendQuitPanic ==
    /\ mpc = "loop"
    /\ ~running
    /\ ~RxAlive
    /\ mpc' = "panicked"
    /\ UNCHANGED <<portVars, auxVars, envVars, audio, workerVars, wpc, play_buffer,
                   callbackVars, running, historyVars, quitSeen, dropped, rtIn,
                   rtOut>>

\* `audio_thread.join().unwrap()`: the processing thread returned.
MainJoin ==
    /\ mpc = "join"
    /\ wpc = "done"
    /\ mpc' = "deactivate"
    /\ UNCHANGED <<portVars, auxVars, envVars, audio, workerVars, wpc, play_buffer,
                   callbackVars, running, historyVars, quitSeen, dropped, rtIn,
                   rtOut>>

\* The same join when the processing thread panicked: the unwrap panics main.
MainJoinPanic ==
    /\ mpc = "join"
    /\ wpc = "panicked"
    /\ mpc' = "panicked"
    /\ UNCHANGED <<portVars, auxVars, envVars, audio, workerVars, wpc, play_buffer,
                   callbackVars, running, historyVars, quitSeen, dropped, rtIn,
                   rtOut>>

\* `active_client.deactivate()` succeeds, once the cycle in flight has
\* returned: the callback is no longer invoked.
MainDeactivate ==
    /\ mpc = "deactivate"
    /\ cb_ret # "running"
    /\ mpc' = "reconnect"
    /\ UNCHANGED <<portVars, envVars, audioVars, running>>

\* deactivate() returns Err; the client is consumed either way. main.rs
\* unwraps it and panics. JackClient::stop logs it and returns at once, before
\* its reconnection loop; main goes on to kill piper.
MainDeactivateFail ==
    /\ mpc = "deactivate"
    /\ mpc' = IF backend = "closure" THEN "panicked" ELSE "kill"
    /\ UNCHANGED <<portVars, envVars, audioVars, running>>

\* `for port in temp_disconnected`: the port of the next iteration, after
\* `done` iterations.
NextToReconnect(done) == temp_disconnected[done + 1]

\* One iteration of the reconnection loop in which
\* connect_ports_by_name(input_port, port) succeeds.
MainReconnect ==
    /\ mpc = "reconnect"
    /\ Len(attempted) < Len(temp_disconnected)
    /\ LET port == NextToReconnect(Len(attempted))
       IN  /\ attempted' = Append(attempted, port)
           /\ mic_routes' = mic_routes \cup {port}
    /\ UNCHANGED <<port_exists, mic_before, out_conn, temp_disconnected,
                   setup_i, mpc, envVars, audioVars, running>>

\* One iteration in which connect_ports_by_name returns Err. main.rs unwraps
\* it and panics; JackClient::stop logs it and goes on with the next port.
MainReconnectFail ==
    /\ mpc = "reconnect"
    /\ Len(attempted) < Len(temp_disconnected)
    /\ attempted' = Append(attempted, NextToReconnect(Len(attempted)))
    /\ mpc' = IF backend = "closure" THEN "panicked" ELSE mpc
    /\ UNCHANGED <<port_exists, mic_before, mic_routes, out_conn,
                   temp_disconnected, setup_i, envVars,
                   audioVars, running>>

\* The reconnection loop is over.
MainReconnectDone ==
    /\ mpc = "reconnect"
    /\ Len(attempted) = Len(temp_disconnected)
    /\ mpc' = "kill"
    /\ UNCHANGED <<portVars, envVars, audioVars, running>>

\* `piper.kill().unwrap(); Ok(())`: main returns.
MainExit ==
    /\ mpc = "kill"
    /\ piper' = "killed"
    /\ mpc' = "exited"
    /\ UNCHANGED <<portVars, backend, vad_frame_ok, push_to_talk, key_down,
                   audioVars, running>>

\* piper.kill() returns Err (the child is gone already): the unwrap panics.
MainKillPanic ==
    /\ mpc = "kill"
    /\ mpc' = "panicked"
    /\ UNCHANGED <<portVars, envVars, audioVars, running>>

\* ------------------------------------------------------------------ setup
\* Setup that disconnects a configured destination from the input source
\* without asking whether it was connected, and records every one.
Monitored_Always(port) == TRUE

\* `port.is_connected_to(&config.audio.input_port)`
Monitored(port) == port \in mic_routes

\* `for port in config.audio.output_ports.clone()`: the iteration for a name
\* port_by_name does not find: a warning, nothing else.
SetupPortMissing ==
    /\ mpc = "setup"
    /\ setup_i < MaxPorts
    /\ (setup_i + 1) \notin port_exists
    /\ setup_i' = setup_i + 1
    /\ UNCHANGED <<port_exists, mic_before, mic_routes, out_conn,
                   temp_disconnected, attempted, mpc, envVars,
                   audioVars, running>>

\* The iteration for a destination that exists, every call succeeding: the
\* output port is connected to it, and if it is connected to the input
\* source its name is pushed and that route is disconnected.
SetupPort ==
    /\ mpc = "setup"
    /\ setup_i < MaxPorts
    /\ LET port == setup_i + 1
       IN  /\ port \in port_exists
           /\ out_conn' = out_conn \cup {port}
           /\ temp_disconnected' = IF Monitored(port)
                                     THEN Append(temp_disconnected, port)
                                     ELSE temp_disconnected
           /\ mic_routes' = IF Monitored(port) THEN mic_routes \ {port}
                                               ELSE mic_routes
    /\ setup_i' = setup_i + 1
    /\ UNCHANGED <<port_exists, mic_before, attempted, mpc, envVars, audioVars, running>>

\* The iteration in which connect_ports, is_connected_to or
\* disconnect_ports_by_name returns Err, with what the calls before it did.
\* main.rs panics (expect/unwrap); JackClient::new returns the error.
SetupPortFail ==
    /\ mpc = "setup"
    /\ setup_i < MaxPorts
    /\ LET port == setup_i + 1
       IN  /\ port \in port_exists
           /\ \E call \in {"connect", "is_connected_to", "disconnect"} :
                /\ call = "disconnect" => Monitored(port)
                /\ out_conn' = IF call = "connect" THEN out_conn
                                                   ELSE out_conn \cup {port}
                /\ temp_disconnected' =
                       IF call = "disconnect"
                         THEN Append(temp_disconnected, port)
                         ELSE temp_disconnected
    /\ mpc' = IF backend = "closure" THEN "panicked" ELSE "setup_failed"
    /\ UNCHANGED <<port_exists, mic_before, mic_routes, setup_i, attempted,
                   envVars, audioVars, running>>

\* `client.activate_async((), process)` after the loop: setup has succeeded.
SetupActivate ==
    /\ mpc = "setup"
    /\ setup_i = MaxPorts
    /\ mpc' = "loop"
    /\ UNCHANGED <<portVars, envVars, audioVars, running>>

\* ---------------------------------------------------------- specification
Next ==
    \/ ProcessCallback
    \/ CallbackSendPanic
    \/ CallbackSendError
    \/ ProcessContinue
    \/ ProcessContinueVadPanic
    \/ ProcessQuit
    \/ TranscribeText
    \/ TranscribeEmpty
    \/ TranscribePanic
    \/ Synthesize
    \/ SynthesizePanic
    \/ LockPlayBuffer
    \/ AppendPlayBuffer
    \/ CtrlC
    \/ MainSendQuit
    \/ MainSendQuitPanic
    \/ MainJoin
    \/ MainJoinPanic
    \/ MainDeactivate
    \/ MainDeactivateFail
    \/ MainReconnect
    \/ MainReconnectFail
    \/ MainReconnectDone
    \/ MainExit
    \/ MainKillPanic

Spec == Init /\ [][Next]_vars

\* The derivation of the VoiceDecision for the first block, of every
\* length around the VAD window and with samples inside and beyond full
\* scale, in both configurations and with the key up or down: the state
\* after the first hardware cycle has sent its block.
BlockLens == (VadWindow - MaxDelta)..(VadWindow + MaxDelta)

SampleValues == {k * (Unit \div 2) : k \in (-(2 + MaxOver))..(2 + MaxOver)}

\* A hardware block of n samples: x first, then y throughout.
HwBlock(n, x, y) == [i \in 1..n |-> IF i = 1 THEN x ELSE y]

InitVad ==
    /\ InitThreads
    /\ mpc = "loop"
    /\ PortsAfterSetup
    /\ \E n \in BlockLens : \E x, y \in SampleValues :
         /\ audio = <<ContinueUnit(HwBlock(n, x, y))>>
         /\ out_buf = [i \in 1..n |-> 0]
    /\ cb_ret = "Continue"
    /\ cycle = 1
    /\ push_to_talk \in BOOLEAN
    /\ key_down \in BOOLEAN

NextVad ==
    \/ ProcessContinue
    \/ ProcessContinueVadPanic

SpecVad == InitVad /\ [][NextVad]_vars

\* The program with the callback taken in its two halves, so that the
\* processing thread can run, block or take the guard between the send and
\* play_buffer.lock(). The real-time thread is scheduled by the audio
\* server whenever it can run, and the append under the guard is a bounded
\* copy; nothing is assumed about recv, transcription or synthesis.
NextRt ==
    \/ CallbackSend
    \/ CallbackFill
    \/ CallbackSendPanic
    \/ CallbackSendError
    \/ ProcessContinue
    \/ ProcessContinueVadPanic
    \/ ProcessQuit
    \/ TranscribeText
    \/ TranscribeEmpty
    \/ TranscribePanic
    \/ Synthesize
    \/ SynthesizePanic
    \/ LockPlayBuffer
    \/ AppendPlayBuffer
    \/ CtrlC
    \/ MainSendQuit
    \/ MainSendQuitPanic
    \/ MainJoin
    \/ MainJoinPanic
    \/ MainDeactivate
    \/ MainDeactivateFail
    \/ MainReconnect
    \/ MainReconnectFail
    \/ MainReconnectDone
    \/ MainExit
    \/ MainKillPanic

\* The steps of the main thread after setup: all of them calls that return.
MainStep ==
    \/ MainSendQuit
    \/ MainSendQuitPanic
    \/ MainJoin
    \/ MainJoinPanic
    \/ MainDeactivate
    \/ MainDeactivateFail
    \/ MainReconnect
    \/ MainReconnectFail
    \/ MainReconnectDone
    \/ MainExit
    \/ MainKillPanic

RtFairness ==
    /\ WF_vars(CallbackSend \/ CallbackSendPanic \/ CallbackSendError)
    /\ WF_vars(CallbackFill)
    /\ WF_vars(AppendPlayBuffer)
    /\ WF_vars(MainStep)

SpecRt == Init /\ [][NextRt]_vars /\ RtFairness

\* The steps of the processing thread: every one a call that returns (with
\* a value or an error) or a receive with a unit queued.
WorkerStep ==
    \/ ProcessContinue
    \/ ProcessContinueVadPanic
    \/ ProcessQuit
    \/ TranscribeText
    \/ TranscribeEmpty
    \/ TranscribePanic
    \/ Synthesize
    \/ SynthesizePanic
    \/ LockPlayBuffer
    \/ AppendPlayBuffer

\* The program under fair scheduling of its threads, every collaborator
\* call returning: a thread that can take a step eventually takes one. The
\* callback is under no obligation, and neither is Ctrl-C.
ShutdownFairness ==
    /\ WF_vars(WorkerStep)
    /\ WF_vars(MainStep)

SpecShutdown == Init /\ [][Next]_vars /\ ShutdownFairness

\* The life of the port graph: setup from any port graph over the
\* configured destinations and one destination that is not configured (a
\* route to the input source can only belong to a port that exists), then
\* the shutdown that follows a Ctrl-C arriving before the first hardware
\* cycle, through teardown.
InitPorts ==
    /\ InitAudio
    /\ mpc = "setup"
    /\ port_exists \in SUBSET Configured
    /\ mic_before \in SUBSET (port_exists \cup {OtherPort})
    /\ mic_routes = mic_before
    /\ out_conn = {}
    /\ temp_disconnected = <<>>
    /\ setup_i = 0
    /\ attempted = <<>>

NextPorts ==
    \/ SetupPortMissing
    \/ SetupPort
    \/ SetupPortFail
    \/ SetupActivate
    \/ CtrlC
    \/ MainSendQuit
    \/ ProcessQuit
    \/ MainJoin
    \/ MainDeactivate
    \/ MainDeactivateFail
    \/ MainReconnect
    \/ MainReconnectFail
    \/ MainReconnectDone
    \/ MainExit
    \/ MainKillPanic

SpecPorts == InitPorts /\ [][NextPorts]_vars


\* ======================================================== the claims
\* A step in which process_audio took one Continue unit through the
\* recording state machine.
BlockProcessed == nrecv' = nrecv + 1

\* A step in which translate_and_play was entered (an utterance emitted).
Emitted == nEmitted' = nEmitted + 1

\* n samples of silence.
Zeros(n) == [i \in 1..n |-> 0]

\* s is a suffix of t.
IsSuffix(s, t) == Len(s) <= Len(t) /\ s = SubSeq(t, Len(t) - Len(s) + 1, Len(t))

\* C1: for every utterance, the first and every later one, the utterance is
\* emitted exactly by the block that is the SilenceThreshold-th consecutive
\* false VoiceDecision since the last true one: a block processed while
\* recording emits if and only if it brings that run to the threshold.
C1_EmitExactlyAtThreshold ==
    [][(BlockProcessed /\ recording)
         => (Emitted <=> falseRun' = SilenceThreshold)]_vars

C3_OnsetResetsSession ==
    [][(BlockProcessed /\ ~recording /\ is_voice')
         => /\ recording'
            /\ samples' = Head(audio).buf
            /\ silence' = 0]_vars

C5_NoVoiceNoUtterance ==
    /\ ~everVoice => /\ nEmitted = 0
                     /\ samples = <<>>
                     /\ utterance = <<>>
                     /\ ~InPipeline
    /\ utterance # <<>> => /\ onsetVoice
                           /\ Take(utterance, BlockLen) = InBlock(onsetIdx)

\* C5 witness: three blocks processed, all of them without voice.
C5_Witness ==
    /\ ~everVoice
    /\ nrecv >= 3
    /\ wpc = "recv"

\* C6: when Quit is consumed while recording, the loop is left without a
\* call of the pipeline and without a change of the play buffer: the partial
\* utterance is discarded.
C6_QuitDiscardsRecording ==
    [][(wpc = "recv" /\ audio # <<>> /\ Head(audio).type = "Quit"
          /\ recording /\ quitSeen')
         => /\ wpc' = "done"
            /\ nEmitted' = nEmitted
            /\ utterance' = <<>>
            /\ resampled' = <<>>
            /\ play_buffer' = play_buffer]_vars

\* C6 witness: the loop was left on Quit with a recording in progress.
C6_Witness ==
    /\ wpc = "done"
    /\ quitSeen
    /\ recording
    /\ samples # <<>>
    /\ silence < SilenceThreshold

\* C7: Quit is terminal: once process_audio has received Quit it takes no
\* further unit, the recording session and the pipeline never change again
\* and nothing is appended to the play buffer.
C7_QuitIsTerminal ==
    [][quitSeen
         => /\ wpc = "done" /\ wpc' = "done"
            /\ UNCHANGED <<recording, silence, samples, is_voice, utterance,
                           resampled, nrecv, nEmitted>>
            /\ IsSuffix(play_buffer', play_buffer)]_vars

\* C7 witness: Quit was received and blocks queued behind it were never read.
C7_Witness ==
    /\ quitSeen
    /\ wpc = "done"
    /\ dropped > 0

\* C8: in every callback cycle, with k samples buffered, out_buf holds the
\* first min(k, BlockLen) buffered samples in order followed by zeros, and
\* exactly those samples are removed from the front of the play buffer.
C8_EveryCycleDrains ==
    [][cycle' = cycle + 1
         => LET m == Min(Len(play_buffer), BlockLen)
            IN  /\ out_buf' = Take(play_buffer, m) \o Zeros(BlockLen - m)
                /\ play_buffer' = Drop(play_buffer, m)]_vars

\* C9: round trip: of a sequence appended to an empty play buffer, the
\* samples popped so far are its prefix, the rest is still at the front of
\* the buffer in order, and once all of it is popped none of it is left.
C9_RoundTrip ==
    /\ Len(rtOut) <= Len(rtIn)
    /\ rtOut = Take(rtIn, Len(rtOut))
    /\ Drop(rtIn, Len(rtOut)) = Take(play_buffer, Len(rtIn) - Len(rtOut))
    /\ \A i \in 1..Len(play_buffer) :
         i > Len(rtIn) - Len(rtOut)
           => \A j \in 1..Len(rtIn) : play_buffer[i] # rtIn[j]

\* C9 witness: MaxTts samples (more than one cycle pops) were appended to an
\* empty buffer and have all been popped, leaving it empty.
C9_Witness ==
    /\ Len(rtIn) = MaxTts
    /\ rtOut = rtIn
    /\ play_buffer = <<>>

\* C10: every invocation of the callback returns Continue and never panics.
C10_CallbackNeverPanics ==
    /\ cb_ret \in {"none", "Continue"}
    /\ rt = "active"

\* C11: a callback cycle whose send fails (receiver gone) still completes
\* its playback step: every frame of out_buf is written, with the buffered
\* samples in order and then zeros, and those samples leave the play buffer.
C11_SendFailureStillPlays ==
    [][(cycle' = cycle + 1 /\ ~RxAlive)
         => LET m == Min(Len(play_buffer), BlockLen)
            IN  /\ \A i \in 1..BlockLen : out_buf'[i] # -1
                /\ out_buf' = Take(play_buffer, m) \o Zeros(BlockLen - m)
                /\ play_buffer' = Drop(play_buffer, m)
                /\ rt' = "active"]_vars

\* C12: when synthesis (the TTS request, the WAV decoding or resample) fails
\* for an utterance, the play buffer is unchanged, the processing thread
\* does not crash but is back at the receive loop, in Idle.
C12_SynthesisFailureAbsorbed ==
    [][(wpc = "synth" /\ wpc' # "synth" /\ wpc' # "append")
         => /\ wpc' = "recv"
            /\ ~recording'
            /\ play_buffer' = play_buffer
            /\ audio' = audio]_vars

\* C13: when transcription yields no text (an empty or blank result, or an
\* error), synthesis is not entered, the play buffer is unchanged and the
\* processing thread is back at the receive loop, in Idle.
C13_NoTextNoSynthesis ==
    [][(wpc = "transcribe" /\ wpc' # "transcribe" /\ wpc' # "synth")
         => /\ wpc' = "recv"
            /\ ~recording'
            /\ resampled' = <<>>
            /\ play_buffer' = play_buffer
            /\ audio' = audio]_vars

\* C14: when the VAD fails on a block, the processing thread does not crash,
\* the block leaves recording, silence and the accumulator as they were and
\* the loop goes on with the next unit.
C14_VadFailureSkipsBlock ==
    [][(wpc = "recv" /\ audio # <<>> /\ Head(audio).type = "Continue"
          /\ ~vad_frame_ok /\ Len(audio') < Len(audio))
         => /\ wpc' = "recv"
            /\ audio' = Tail(audio)
            /\ UNCHANGED <<recording, silence, samples>>]_vars


\* The utterance a synthesized sample belongs to.
UttOf(x) == x \div 100

\* s holds whole-or-partly-played utterance outputs in emission order.
InEmissionOrder(s) == \A i, j \in 1..Len(s) : i < j => s[i] < s[j]

\* Every utterance output in s is there from its first sample on, gap-free.
WholeOutputs(s) ==
    \A i \in 1..Len(s) :
        \/ s[i] = 100 * UttOf(s[i]) + 1
        \/ (i > 1 /\ s[i - 1] = s[i] - 1)

C15_State ==
    /\ InEmissionOrder(appended)
    /\ WholeOutputs(appended)
    /\ InEmissionOrder(play_buffer)
    /\ IsSuffix(play_buffer, appended)
    /\ \A i \in 1..Len(appended) : UttOf(appended[i]) <= nEmitted
    /\ InPipeline => \A i \in 1..Len(appended) : UttOf(appended[i]) < nEmitted

IsContinue(unit) == unit.type = "Continue"

\* The blocks waiting in the channel are those of the cycles after the last
\* one consumed, each once, in cycle order.
QueueInCycleOrder ==
    LET q == SelectSeq(audio, IsContinue)
    IN  /\ Len(q) = cycle - nrecv
        /\ \A i \in 1..Len(q) : q[i].buf = InBlock(nrecv + i)

C20_LockOnlyAroundAppend ==
    [][/\ (lock' = "worker") <=> (wpc' = "locked")
       /\ wpc' \in {"transcribe", "synth", "append"} => lock' = "free"
       /\ (lock = "worker" /\ lock' # "worker")
            => /\ \E len \in 1..MaxTts :
                    play_buffer' = play_buffer \o TtsOut(nEmitted, len)
               /\ wpc' = "recv"
       /\ lock = "worker" => (play_buffer' = play_buffer \/ lock' = "free")
       /\ cycle' = cycle + 1
            => /\ lock = "free" /\ lock' = "free"
               /\ IsSuffix(play_buffer, appended)
               /\ WholeOutputs(appended)
       /\ play_buffer' # play_buffer
            => (cycle' = cycle + 1) # (lock = "worker")]_vars

\* The worker holds the lock while the client is active and cycles remain.
C20_Witness ==
    /\ lock = "worker"
    /\ wpc = "locked"
    /\ rt = "active"
    /\ mpc = "loop"
    /\ cycle < MaxCycles

\* The steps of orderly shutdown happen in their order: Quit is sent only
\* with the running flag cleared; the join returns only when the processing
\* thread has exited; the client is deactivated only after the join, with no
\* port reconnected yet; ports are reconnected only after deactivation; and a
\* callback cycle runs only while the client is active.
ShutdownOrder ==
    /\ (audio' # <<>> /\ audio' = Append(audio, QuitUnit))
         => (~running /\ mpc = "loop" /\ mpc' = "join")
    /\ (mpc = "join" /\ mpc' # "join")
         => (wpc \in {"done", "panicked"}
               /\ mpc' = IF wpc = "done" THEN "deactivate" ELSE "panicked")
    /\ (ClientActive /\ ~ClientActive' /\ mpc' # "panicked")
         => (mpc = "deactivate" /\ ~running /\ wpc = "done" /\ quitSeen
               /\ attempted = <<>>)
    /\ attempted' # attempted
         => (mpc = "reconnect" /\ ~ClientActive /\ wpc = "done")
    /\ cycle' = cycle + 1 => ClientActive
    /\ (mpc' = "exited" /\ mpc # "exited") => ~ClientActive

\* The order alone, whatever stops the callback.
ShutdownOrderHolds == [][ShutdownOrder]_vars

\* C17: orderly shutdown sends Quit, joins the processing thread, then
\* deactivates the client, then reconnects the recorded ports, in that order;
\* the callback does not depend on the running flag and in an orderly
\* shutdown (running cleared, the processing thread not panicked) nothing
\* but deactivation stops it: until the client is deactivated the real-time
\* thread is still able to run cycles.
C17_ShutdownOrderCallbackStopsLast ==
    [][/\ ShutdownOrder
       /\ (~running' /\ wpc' # "panicked" /\ ProcessAlive' /\ ClientActive')
            => rt' = "active"]_vars

\* C18: teardown calls the reconnection for every recorded port exactly once
\* (the recorded ports in their order, none twice, all of them before the
\* process goes on to exit), and neither a failed reconnection nor a failed
\* deactivation before it ends the process or skips the remaining ports.
C18_TeardownReconnectsEveryPort ==
    [][/\ (mpc \in {"deactivate", "reconnect"} /\ mpc' # mpc)
            => mpc' \in {"reconnect", "kill"}
       /\ (mpc \in {"deactivate", "reconnect"} /\ mpc' = "kill")
            => attempted' = temp_disconnected
       /\ attempted' = Take(temp_disconnected, Len(attempted'))]_vars

\* C19: once setup has succeeded, PortTopology holds exactly the configured
\* destinations that exist and were wired to the input source before setup,
\* each once; exactly those routes have been disconnected and every other
\* route to the input source is still there; and the client's output port is
\* connected to every configured destination that exists, and to no other.
C19_TopologyAfterSetup ==
    mpc = "loop"
      => /\ Range(temp_disconnected)
              = (Configured \cap port_exists) \cap mic_before
         /\ Cardinality(Range(temp_disconnected)) = Len(temp_disconnected)
         /\ mic_routes = mic_before \ Range(temp_disconnected)
         /\ out_conn = Configured \cap port_exists

\* Setup succeeded where one configured destination was monitoring the input
\* source, another configured one was not recorded (missing or not
\* monitoring) and a destination that is not configured was monitoring too.
C19_Witness ==
    /\ mpc = "loop"
    /\ setup_i = MaxPorts
    /\ temp_disconnected # <<>>
    /\ Range(temp_disconnected) # Configured
    /\ OtherPort \in mic_routes

\* C28: in every state of the worker, over any number of utterances, silence
\* is at most the threshold, and strictly below it while recording.
C28_SilenceBounded ==
    /\ silence <= SilenceThreshold
    /\ recording => silence < SilenceThreshold

\* C30: a callback cycle that runs after the processing thread has exited
\* (Quit consumed, or a panic) and before the client is deactivated completes
\* normally: no panic, Control::Continue, every slot of out_buf written.
C30_CycleAfterWorkerExitCompletes ==
    [][(cycle' = cycle + 1 /\ wpc \in {"done", "panicked"} /\ ClientActive)
         => /\ cb_ret' = "Continue"
            /\ rt' = "active"
            /\ \A i \in 1..BlockLen : out_buf'[i] # -1]_vars

\* C24: the synthesis server is a scoped resource: whenever the program has
\* ended after starting it, by returning from main or through a failing
\* startup or shutdown step, the piper process has been terminated.
C24_PiperKilledOnEveryExit ==
    (mpc \in {"exited", "panicked"}) => piper = "killed"

\* C25: a setup that fails leaves no partial state: when the setup loop ends
\* in an error, every route to the input source that existed before setup
\* still exists.
C25_SetupFailureRestoresRoutes ==
    [][(mpc = "setup" /\ mpc' \in {"panicked", "setup_failed"})
         => mic_routes' = mic_before]_vars

\* C27: in every state, what the callback has popped so far, followed by what
\* the Playback Buffer holds, is the concatenation of everything the worker
\* has appended, in append order: nothing is lost, duplicated or reordered.
C27_PlaybackConservation ==
    popped \o play_buffer = appended

\* Samples of the first utterance's output have been popped and samples of
\* the second one's are buffered.
C27_Witness ==
    /\ popped # <<>>
    /\ play_buffer # <<>>
    /\ UttOf(popped[Len(popped)]) = 1
    /\ UttOf(play_buffer[Len(play_buffer)]) = 2

\* The position of Quit in the channel (0 when it is not there).
QuitPos(queue) ==
    IF \E i \in 1..Len(queue) : queue[i].type = "Quit"
      THEN CHOOSE i \in 1..Len(queue) : queue[i].type = "Quit"
      ELSE 0

\* C29: Quit does not pre-empt queued audio. While Quit waits in the channel
\* the units ahead of it are the blocks sent before it, in order; the worker
\* consumes each of them, may emit an utterance from them and runs its whole
\* pipeline call, and receives Quit only as the head of the channel with no
\* call in flight; the join returns only after that.
C29_QuitAfterQueuedAudio ==
    [][/\ LET p == QuitPos(audio')
          IN  p > 0 => \A i \in 1..(p - 1) :
                          audio'[i] = ContinueUnit(InBlock(nrecv' + i))
       /\ (BlockProcessed /\ QuitWaiting)
            => (QuitPos(audio) > 1 /\ QuitPos(audio') = QuitPos(audio) - 1)
       /\ (InPipeline /\ QuitWaiting) => ~quitSeen'
       /\ (quitSeen' /\ ~quitSeen)
            => (Head(audio) = QuitUnit /\ wpc = "recv" /\ wpc' = "done")
       /\ (mpc = "join" /\ mpc' = "deactivate")
            => (quitSeen /\ wpc = "done")]_vars

\* An utterance was emitted from blocks queued ahead of Quit, its output was
\* appended, then Quit was received and the join returned.
C29_Witness ==
    /\ lateEmit
    /\ quitSeen
    /\ mpc = "deactivate"
    /\ appended # <<>>
    /\ UttOf(appended[Len(appended)]) = nEmitted

\* C22: with push-to-talk configured, the VoiceDecision the recording state
\* machine uses for a block is the polled state of the key, whatever the
\* block holds and whatever the VAD answers: an idle session starts
\* recording exactly when the key is down.
C22_PushToTalkDecision ==
    [][(BlockProcessed /\ push_to_talk)
         => /\ is_voice' = key_down
            /\ ~recording => (recording' = key_down)]_vars

\* w is the VAD window of block b: of the fixed length, every sample inside
\* the signed 16-bit range, and every sample that comes from the block is
\* that input sample clamped to [-1, 1] and scaled, to the nearest integer.
IsVadWindowOf(w, b) ==
    /\ Len(w) = VadWindow
    /\ \A i \in 1..Len(w) :
         /\ w[i] \in (-I16Max)..I16Max
         /\ i <= Len(b)
              => LET c == IF b[i] < -Unit THEN -Unit
                          ELSE IF b[i] > Unit THEN Unit ELSE b[i]
                     e == w[i] * Unit - c * I16Max
                 IN  2 * e <= Unit /\ 2 * (-e) <= Unit

\* C23: for every hardware block length (shorter than, equal to or longer
\* than the VAD window) the window handed to the voice-activity detector has
\* exactly the window length, longer blocks truncated and shorter ones
\* padded, each sample the clamped and scaled input sample.
C23_VadWindowFixedLength ==
    [][(wpc = "recv" /\ audio # <<>> /\ Head(audio).type = "Continue"
          /\ Len(audio') < Len(audio))
         => IsVadWindowOf(samples_int', Head(audio).buf)]_vars

\* Cycle n has returned Control::Continue with every frame of out_buf
\* written.
CycleComplete(n) ==
    /\ cycle = n
    /\ cb_ret = "Continue"
    /\ \A i \in 1..BlockLen : out_buf[i] # -1

\* C21: under fair scheduling of the real-time thread, every callback cycle
\* that starts eventually completes (send done, output written, 'continue'
\* returned) for as long as the process lives, whatever the processing
\* thread is doing.
C21_EveryCycleCompletes ==
    \A n \in 1..MaxCycles :
        (cycle = n) ~> (CycleComplete(n) \/ ~ProcessAlive)

\* The part of C21 that concerns blocking: a cycle whose send has been done
\* gets the guard, writes its output and returns, even if the processing
\* thread never leaves recv, transcription or synthesis.
C21_SentCycleReturns ==
    (cb_ret = "running") ~> (cb_ret = "Continue" \/ ~ProcessAlive)

\* The end state of an orderly shutdown: the processing thread has returned,
\* the client is deactivated and every recorded port is wired to the input
\* source again.
ShutdownComplete ==
    /\ wpc = "done"
    /\ mpc \in {"kill", "exited"}
    /\ attempted = temp_disconnected
    /\ Range(temp_disconnected) \subseteq mic_routes

\* C26: under fair scheduling, with every collaborator call returning, once
\* the running flag is cleared the system eventually reaches the state in
\* which the worker has exited, the client is deactivated and all recorded
\* ports have been reconnected, however many blocks the callback enqueues.
C26_ShutdownTerminates == (~running) ~> ShutdownComplete

\* The part of C26 that concerns termination: once the running flag is
\* cleared the main thread always comes to an end, in the orderly end state
\* or by a panic or an early return of its own.
C26_MainThreadEnds == (~running) ~> (mpc \in {"kill", "exited", "panicked"})
=============================================================================
